---- MODULE Spec2Model ----
(***************************************************************************)
(* Trust & safety moderation pipeline of SpeakPoly:                        *)
(*   - the Contact Redactor (packages/utils, detectAndRedactContactInfo),  *)
(*   - the Moderation Orchestrator (SafetyService.moderateText),           *)
(*   - the Sanction Escalation Engine (ModeratorService.recordSafetyEvent) *)
(*     as driven by the socket server's send-message handler.              *)
(* Texts are sequences of one-character strings; offsets are 0-based as in *)
(* JavaScript; the matchers follow the backtracking order of the regular   *)
(* expressions of the source.                                              *)
(***************************************************************************)
EXTENDS Integers, Sequences, FiniteSets, TLC

VARIABLES
    rText,      \* SpecRedact: the input text of the redactor
    rFirst,     \* SpecRedact: RedactionResult of the first pass (or NoResult)
    rSecond,    \* SpecRedact: RedactionResult of the pass over rFirst.text
    mInput,     \* SpecModerate: the text and the configuration of the call
    mRedaction, \* SpecModerate: redactionResult of the call (or NoResult)
    mCalls,     \* SpecModerate: what the two classifiers answer in the call
    mVerdict,   \* SpecModerate: the SafetyResult moderateText returned
    db,         \* Spec: the store (safety events, the sender's user row, ...)
    room,       \* Spec: the new-message events broadcast to the pair room
    frame,      \* Spec: per handler invocation, its position and locals
    now,        \* Spec: the clock, in minutes
    budget,     \* Spec: sends, store failures and clock ticks so far
    moderation, \* Spec: per message of the model, what moderateText and the
                \* fallback redaction return for it, computed once
    account     \* SpecAccount: the outcome of the last sign-in and the
                \* position of the moderator's applyBan

vars ==
    <<rText, rFirst, rSecond, mInput, mRedaction, mCalls, mVerdict,
      db, room, frame, now, budget, moderation, account>>

redactVars == <<rText, rFirst, rSecond>>
moderateVars == <<mInput, mRedaction, mCalls, mVerdict>>
engineVars == <<db, room, frame, now, budget, moderation, account>>

NoResult == [none |-> TRUE]

-----------------------------------------------------------------------------
(* Characters and character classes                                        *)

Digit == {"0", "1", "2", "3", "4", "5", "6", "7", "8", "9"}

LowerLetter ==
    {"a", "b", "c", "d", "e", "f", "g", "h", "i", "j", "k", "l", "m",
     "n", "o", "p", "q", "r", "s", "t", "u", "v", "w", "x", "y", "z"}

UpperLetter ==
    {"A", "B", "C", "D", "E", "F", "G", "H", "I", "J", "K", "L", "M",
     "N", "O", "P", "Q", "R", "S", "T", "U", "V", "W", "X", "Y", "Z"}

Letter == LowerLetter \cup UpperLetter

\* \w
WordChar == Letter \cup Digit \cup {"_"}

\* \s
SpaceChar == {" ", "\t", "\n"}

Punct == {"@", ".", "-", "+", "%", "_", "(", ")", "[", "]", "/", ":", "|", ","}

AllChar == Letter \cup Digit \cup SpaceChar \cup Punct

\* [^\s]
NonSpace == AllChar \ SpaceChar

\* [\s.-]
Separator == SpaceChar \cup {".", "-"}

\* [A-Za-z0-9._%+-]
EmailLocal == Letter \cup Digit \cup {".", "_", "%", "+", "-"}

\* [A-Za-z0-9.-]
EmailDomain == Letter \cup Digit \cup {".", "-"}

\* [A-Z|a-z]
EmailTld == Letter \cup {"|"}

\* [a-zA-Z0-9_]
HandleChar == Letter \cup Digit \cup {"_"}

\* String.prototype.toLowerCase on one character
ToLower(c) ==
    CASE c = "A" -> "a" [] c = "B" -> "b" [] c = "C" -> "c" [] c = "D" -> "d"
      [] c = "E" -> "e" [] c = "F" -> "f" [] c = "G" -> "g" [] c = "H" -> "h"
      [] c = "I" -> "i" [] c = "J" -> "j" [] c = "K" -> "k" [] c = "L" -> "l"
      [] c = "M" -> "m" [] c = "N" -> "n" [] c = "O" -> "o" [] c = "P" -> "p"
      [] c = "Q" -> "q" [] c = "R" -> "r" [] c = "S" -> "s" [] c = "T" -> "t"
      [] c = "U" -> "u" [] c = "V" -> "v" [] c = "W" -> "w" [] c = "X" -> "x"
      [] c = "Y" -> "y" [] c = "Z" -> "z" [] OTHER -> c

-----------------------------------------------------------------------------
(* A backtracking matcher for the regular expressions of the source.       *)
(* A pattern is a sequence of alternatives tried in order; an alternative  *)
(* is a sequence of elements:                                              *)
(*   [t |-> "cls", cls, min, max]  greedy repetition of a character class  *)
(*   [t |-> "wb"]                  \b                                      *)
(*   [t |-> "alt", opts]           (?:a|b|...) over literals, in order,    *)
(*                                 compared case-insensitively (flag i)    *)

Cls(c, lo, hi) == [t |-> "cls", cls |-> c, min |-> lo, max |-> hi]
Wb == [t |-> "wb"]
Alt(o) == [t |-> "alt", opts |-> o]
Lit(l) == Alt(<<l>>)

\* {lo,}: a max of -1 never runs out
AtLeast(c, lo) == [t |-> "cls", cls |-> c, min |-> lo, max |-> -1]

IsWordAt(s, i) == i >= 1 /\ i <= Len(s) /\ s[i] \in WordChar

\* \b between position pos-1 and pos (1-based index of the next character)
WordBoundaryAt(s, pos) == IsWordAt(s, pos - 1) # IsWordAt(s, pos)

RECURSIVE RunLength(_, _, _, _)
\* number of consecutive characters of class c from pos, at most cap
RunLength(s, pos, c, cap) ==
    IF cap = 0 \/ pos > Len(s) \/ s[pos] \notin c THEN 0
    ELSE 1 + RunLength(s, pos + 1, c, cap - 1)

LitMatchesAt(s, pos, l) ==
    /\ pos + Len(l) - 1 <= Len(s)
    /\ \A i \in 1..Len(l) : ToLower(s[pos + i - 1]) = ToLower(l[i])

RECURSIVE MatchFrom(_, _, _, _)
RECURSIVE TryCount(_, _, _, _, _)
RECURSIVE TryOpts(_, _, _, _, _)

\* the position after the match of elements k.. of alternative re from pos,
\* in backtracking order; 0 when there is none
MatchFrom(re, k, s, pos) ==
    IF k > Len(re) THEN pos
    ELSE LET e == re[k] IN
         CASE e.t = "cls" ->
                LET run == RunLength(s, pos, e.cls, e.max) IN
                TryCount(re, k, s, pos, run)
           [] e.t = "wb" ->
                IF WordBoundaryAt(s, pos) THEN MatchFrom(re, k + 1, s, pos) ELSE 0
           [] e.t = "alt" -> TryOpts(re, k, s, pos, 1)

\* greedy: the longest repetition first, then shorter ones
TryCount(re, k, s, pos, n) ==
    IF n < re[k].min THEN 0
    ELSE LET r == MatchFrom(re, k + 1, s, pos + n) IN
         IF r # 0 THEN r ELSE TryCount(re, k, s, pos, n - 1)

TryOpts(re, k, s, pos, j) ==
    IF j > Len(re[k].opts) THEN 0
    ELSE LET l == re[k].opts[j]
             r == IF LitMatchesAt(s, pos, l)
                  THEN MatchFrom(re, k + 1, s, pos + Len(l)) ELSE 0
         IN IF r # 0 THEN r ELSE TryOpts(re, k, s, pos, j + 1)

RECURSIVE MatchAlternatives(_, _, _, _)
MatchAlternatives(pat, a, s, pos) ==
    IF a > Len(pat) THEN 0
    ELSE LET r == MatchFrom(pat[a], 1, s, pos) IN
         IF r # 0 THEN r ELSE MatchAlternatives(pat, a + 1, s, pos)

RECURSIVE ScanMatches(_, _, _)
\* String.prototype.match with a global pattern: the matched substrings,
\* left to right, non-overlapping
ScanMatches(pat, s, pos) ==
    IF pos > Len(s) THEN <<>>
    ELSE LET e == MatchAlternatives(pat, 1, s, pos) IN
         IF e > pos THEN <<SubSeq(s, pos, e - 1)>> \o ScanMatches(pat, s, e)
         ELSE ScanMatches(pat, s, pos + 1)

GlobalMatch(pat, s) == ScanMatches(pat, s, 1)

-----------------------------------------------------------------------------
(* Contact information detection patterns                                  *)

\* /\b[A-Za-z0-9._%+-]+@[A-Za-z0-9.-]+\.[A-Z|a-z]{2,}\b/gi
EMAIL_PATTERN ==
    << <<Wb, AtLeast(EmailLocal, 1), Lit(<<"@">>), AtLeast(EmailDomain, 1),
         Lit(<<".">>), AtLeast(EmailTld, 2), Wb>> >>

\* \(?\d{1,4}\)?[\s.-]?\d{1,4}[\s.-]?\d{1,9}
PhoneBody ==
    <<Cls({"("}, 0, 1), Cls(Digit, 1, 4), Cls({")"}, 0, 1), Cls(Separator, 0, 1),
      Cls(Digit, 1, 4), Cls(Separator, 0, 1), Cls(Digit, 1, 9)>>

\* (\+?\d{1,4}[\s.-]?)
PhonePrefix == <<Cls({"+"}, 0, 1), Cls(Digit, 1, 4), Cls(Separator, 0, 1)>>

\* /(\+?\d{1,4}[\s.-]?)?\(?\d{1,4}\)?[\s.-]?\d{1,4}[\s.-]?\d{1,9}/g
\* the optional group is tried first, then skipped
PHONE_PATTERN == <<PhonePrefix \o PhoneBody, PhoneBody>>

SocialSites ==
    <<<<"f", "a", "c", "e", "b", "o", "o", "k">>, <<"f", "b">>, <<"i", "n", "s", "t", "a", "g", "r", "a", "m">>, <<"t", "w", "i", "t", "t", "e", "r">>, <<"l", "i", "n", "k", "e", "d", "i", "n">>, <<"t", "e", "l", "e", "g", "r", "a", "m">>, <<"w", "h", "a", "t", "s", "a", "p", "p">>, <<"d", "i", "s", "c", "o", "r", "d">>, <<"s", "n", "a", "p", "c", "h", "a", "t">>>>

SOCIAL_PATTERNS ==
    << \* /@[a-zA-Z0-9_]{1,30}/g
       << <<Lit(<<"@">>), Cls(HandleChar, 1, 30)>> >>,
       \* /(?:https?:\/\/)?(?:www\.)?(?:facebook|...|snapchat)\.(?:com|me|org)\/[^\s]+/gi
       << <<Alt(<<<<"h", "t", "t", "p", "s", ":", "/", "/">>, <<"h", "t", "t", "p", ":", "/", "/">>, <<>> >>), Alt(<<<<"w", "w", "w", ".">>, <<>> >>), Alt(SocialSites),
            Lit(<<".">>), Alt(<<<<"c", "o", "m">>, <<"m", "e">>, <<"o", "r", "g">>>>), Lit(<<"/">>), AtLeast(NonSpace, 1)>> >>,
       \* /(?:wa\.me|t\.me|discord\.gg)\/[^\s]+/gi
       << <<Alt(<<<<"w", "a", ".", "m", "e">>, <<"t", ".", "m", "e">>, <<"d", "i", "s", "c", "o", "r", "d", ".", "g", "g">>>>), Lit(<<"/">>), AtLeast(NonSpace, 1)>> >> >>

EMAIL_REDACTED == <<"[", "E", "M", "A", "I", "L", " ", "R", "E", "D", "A", "C", "T", "E", "D", "]">>
PHONE_REDACTED == <<"[", "P", "H", "O", "N", "E", " ", "R", "E", "D", "A", "C", "T", "E", "D", "]">>
CONTACT_REDACTED == <<"[", "C", "O", "N", "T", "A", "C", "T", " ", "R", "E", "D", "A", "C", "T", "E", "D", "]">>

-----------------------------------------------------------------------------
(* detectAndRedactContactInfo                                              *)

RECURSIVE IndexFrom(_, _, _)
IndexFrom(hay, needle, i) ==
    IF i + Len(needle) > Len(hay) THEN -1
    ELSE IF SubSeq(hay, i + 1, i + Len(needle)) = needle THEN i
    ELSE IndexFrom(hay, needle, i + 1)

\* String.prototype.indexOf: 0-based offset of the first occurrence, or -1
IndexOf(hay, needle) == IndexFrom(hay, needle, 0)

\* String.prototype.replace with a string pattern: the first occurrence only
ReplaceFirst(s, needle, by) ==
    LET i == IndexOf(s, needle) IN
    IF i = -1 THEN s
    ELSE SubSeq(s, 1, i) \o by \o SubSeq(s, i + Len(needle) + 1, Len(s))

\* phone.replace(/\D/g, '').length
DigitCount(s) == Cardinality({i \in 1..Len(s) : s[i] \in Digit})

\* digits a phone match needs to be redacted
MinPhoneDigits == 7

\* the body of each forEach callback
RedactOne(acc, match, type, placeholder) ==
    LET index == IndexOf(acc.text, match) IN
    IF index # -1
    THEN [text |-> ReplaceFirst(acc.text, match, placeholder),
          redactions |-> Append(acc.redactions,
                                [start |-> index, end |-> index + Len(match),
                                 type |-> type])]
    ELSE acc

RECURSIVE RedactEach(_, _, _, _, _)
RedactEach(acc, matches, i, type, placeholder) ==
    IF i > Len(matches) THEN acc
    ELSE RedactEach(RedactOne(acc, matches[i], type, placeholder),
                    matches, i + 1, type, placeholder)

IsPhoneNumber(phone) == DigitCount(phone) >= MinPhoneDigits

RedactEmails(text, acc) ==
    RedactEach(acc, GlobalMatch(EMAIL_PATTERN, text), 1, "email", EMAIL_REDACTED)

RedactPhones(text, acc) ==
    RedactEach(acc, SelectSeq(GlobalMatch(PHONE_PATTERN, text), IsPhoneNumber),
               1, "phone", PHONE_REDACTED)

RECURSIVE RedactSocial(_, _, _)
RedactSocial(text, acc, p) ==
    IF p > Len(SOCIAL_PATTERNS) THEN acc
    ELSE RedactSocial(text,
                      RedactEach(acc, GlobalMatch(SOCIAL_PATTERNS[p], text), 1,
                                 "social", CONTACT_REDACTED),
                      p + 1)

\* every pattern is matched against the original text; the matches are
\* located and replaced in the text processed so far
detectAndRedactContactInfo(text) ==
    LET start == [text |-> text, redactions |-> <<>>]
        done == RedactSocial(text, RedactPhones(text, RedactEmails(text, start)), 1)
    IN [text |-> done.text,
        redactions |-> done.redactions,
        hasRedactions |-> Len(done.redactions) > 0]

-----------------------------------------------------------------------------
(* SafetyService: severities, configuration, collaborators' outcomes       *)

\* enum ViolationSeverity
LOW == "low"
MEDIUM == "medium"
HIGH == "high"
CRITICAL == "critical"

\* scores and confidences are hundredths: 70 is 0.7, 100 is 1.0
DefaultThreshold == 70

\* DEFAULT_SAFETY_CONFIG merged with the custom configuration, and whether
\* SIGHTENGINE_API_USER and SIGHTENGINE_API_SECRET are set.
\* rules / ml: ruleBasedCategories / mlModels are non-empty;
\* threshold 0 stands for an unset (falsy) threshold
DEFAULT_SAFETY_CONFIG ==
    [enableSightengine |-> TRUE, configured |-> TRUE, rules |-> TRUE, ml |-> TRUE,
     threshold |-> DefaultThreshold]

\* a call of a classifier: axios threw (non-2xx, timeout), the response's
\* status was not 'success' (null), or a response
Threw == [kind |-> "throw"]
NotSuccess == [kind |-> "null"]
RuleResponse(matches) == [kind |-> "ok", matches |-> matches]
MLResponse(classes) == [kind |-> "ok", classes |-> classes]

\* response[category]?.matches
MatchesOf(response, category) ==
    LET Is(m) == m.category = category IN SelectSeq(response.matches, Is)

ContactType(t) ==
    CASE t = "email" -> "contact_email"
      [] t = "phone" -> "contact_phone"
      [] t = "social" -> "contact_social"

ProfanityType(t) ==
    CASE t = "sexual" -> "profanity_sexual"
      [] t = "insult" -> "profanity_insult"
      [] OTHER -> "profanity_other"

PersonalType(t) ==
    CASE t = "email" -> "personal_email"
      [] t = "phone_number" -> "personal_phone_number"
      [] OTHER -> "personal_other"

MLType(key) ==
    CASE key = "sexual" -> "ml_sexual"
      [] key = "toxic" -> "ml_toxic"
      [] key = "self-harm" -> "ml_self-harm"
      [] OTHER -> "ml_other"

Violation(type, severity, confidence, category, action) ==
    [type |-> type, severity |-> severity, confidence |-> confidence,
     category |-> category, action |-> action]

\* Array.prototype.map over a sequence
RECURSIVE MapSeq(_, _)
MapSeq(F(_), s) == IF s = <<>> THEN <<>> ELSE <<F(Head(s))>> \o MapSeq(F, Tail(s))

-----------------------------------------------------------------------------
(* Taxonomy and severity mapping                                           *)

mapIntensityToSeverity(intensity) ==
    CASE intensity = "high" -> CRITICAL
      [] intensity = "medium" -> HIGH
      [] intensity = "low" -> MEDIUM
      [] OTHER -> LOW

\* the two upper bands exchanged
scoresToSeverityExchanged(score) ==
    IF score >= 90 THEN HIGH
    ELSE IF score >= 80 THEN CRITICAL
    ELSE IF score >= 70 THEN MEDIUM
    ELSE LOW

scoresToSeverity(score) ==
    IF score >= 90 THEN CRITICAL
    ELSE IF score >= 80 THEN HIGH
    ELSE IF score >= 70 THEN MEDIUM
    ELSE LOW

criticalCategories == {"extremism", "violence", "self-harm"}
highCategories == {"weapon", "drug", "content-trade", "money-transaction"}
mediumCategories == {"spam", "medical"}

getCategorySeverity(category) ==
    IF category \in criticalCategories THEN CRITICAL
    ELSE IF category \in highCategories THEN HIGH
    ELSE IF category \in mediumCategories THEN MEDIUM
    ELSE LOW

otherCategories ==
    <<"drug", "weapon", "spam", "content-trade", "money-transaction",
      "extremism", "violence", "self-harm", "medical">>

ProfanityViolation(match) ==
    LET severity == mapIntensityToSeverity(match.intensity) IN
    Violation(ProfanityType(match.type), severity, 100, "rule-based",
              IF severity = CRITICAL THEN "block" ELSE "flag")

PersonalViolation(match) ==
    Violation(PersonalType(match.type), HIGH, 100, "rule-based", "block")

LinkViolation(match) ==
    Violation("external_link", MEDIUM, 100, "rule-based", "flag")

CategoryViolation(match) ==
    LET severity == getCategorySeverity(match.category) IN
    Violation(match.category, severity, 100, "rule-based",
              IF severity = CRITICAL THEN "block" ELSE "moderate")

RECURSIVE OtherViolations(_, _)
OtherViolations(response, i) ==
    IF i > Len(otherCategories) THEN <<>>
    ELSE MapSeq(CategoryViolation, MatchesOf(response, otherCategories[i]))
         \o OtherViolations(response, i + 1)

processRuleBasedResponse(response) ==
    MapSeq(ProfanityViolation, MatchesOf(response, "profanity"))
    \o MapSeq(PersonalViolation, MatchesOf(response, "personal"))
    \o MapSeq(LinkViolation, MatchesOf(response, "link"))
    \o OtherViolations(response, 1)

\* Object.keys(moderation_classes) without 'available', in this order
MLKeys == <<"sexual", "toxic", "self-harm">>

MLViolation(key, score) ==
    LET severity == scoresToSeverity(score) IN
    Violation(MLType(key), severity, score, "ml-based",
              IF severity = CRITICAL THEN "block" ELSE "moderate")

RECURSIVE MLViolationsFrom(_, _, _)
MLViolationsFrom(classes, threshold, i) ==
    IF i > Len(MLKeys) THEN <<>>
    ELSE (IF classes[MLKeys[i]] > threshold
          THEN <<MLViolation(MLKeys[i], classes[MLKeys[i]])>> ELSE <<>>)
         \o MLViolationsFrom(classes, threshold, i + 1)

processMLResponse(response, threshold) ==
    MLViolationsFrom(response.classes, threshold, 1)

-----------------------------------------------------------------------------
(* SafetyService.moderateText                                              *)

\* a contact detection that only flags
ContactViolationFlagged(redaction) ==
    Violation(ContactType(redaction.type), MEDIUM, 100, "contact-detection", "flag")

ContactViolation(redaction) ==
    Violation(ContactType(redaction.type), HIGH, 100, "contact-detection", "block")

\* Layer 1: contact information detection and redaction
ContactViolations(redactionResult) ==
    IF redactionResult.hasRedactions
    THEN MapSeq(ContactViolation, redactionResult.redactions)
    ELSE <<>>

ApiErrorViolation == Violation("moderation_api_error", LOW, 50, "rule-based", "flag")

\* effectiveConfig.enableSightengine && SIGHTENGINE_API_USER && SIGHTENGINE_API_SECRET
SightengineEnabled(cfg) == cfg.enableSightengine /\ cfg.configured

\* the rule-based call is made
RuleCalled(cfg) == SightengineEnabled(cfg) /\ cfg.rules

\* the ML call is made: the rule-based call before it, if any, did not throw
MLCalled(cfg, rule) ==
    SightengineEnabled(cfg) /\ cfg.ml /\ ~(RuleCalled(cfg) /\ rule.kind = "throw")

\* a try block that ends before the ML call
CaughtRuleOnly(cfg, rule, ml) == RuleCalled(cfg) /\ rule.kind = "throw"

\* control reached the catch block
Caught(cfg, rule, ml) ==
    \/ RuleCalled(cfg) /\ rule.kind = "throw"
    \/ MLCalled(cfg, rule) /\ ml.kind = "throw"

\* effectiveConfig.threshold || 0.7
EffectiveThreshold(cfg) == IF cfg.threshold = 0 THEN DefaultThreshold ELSE cfg.threshold

RuleLayerViolations(cfg, rule) ==
    IF RuleCalled(cfg) /\ rule.kind = "ok" THEN processRuleBasedResponse(rule) ELSE <<>>

MLLayerViolations(cfg, rule, ml) ==
    IF MLCalled(cfg, rule) /\ ml.kind = "ok"
    THEN processMLResponse(ml, EffectiveThreshold(cfg)) ELSE <<>>

Max(S) == CHOOSE x \in S : \A y \in S : y <= x
Min(S) == CHOOSE x \in S : \A y \in S : x <= y

\* confidence = Math.min(confidence, 1 - Math.max(...scores))
MLConfidence(cfg, rule, ml) ==
    IF MLCalled(cfg, rule) /\ ml.kind = "ok"
    THEN Min({100, 100 - Max({ml.classes[k] : k \in DOMAIN ml.classes})})
    ELSE 100

CountWhere(Test(_), s) == Cardinality({i \in 1..Len(s) : Test(s[i])})

IsCritical(v) == v.severity = CRITICAL
IsHigh(v) == v.severity = HIGH
IsMedium(v) == v.severity = MEDIUM
IsBlocking(v) == v.action = "block"

\* the decision without the count of High violations
OverallSafeIgnoringHigh(violations) ==
    /\ CountWhere(IsCritical, violations) = 0
    /\ CountWhere(IsBlocking, violations) = 0

\* Determine overall safety
OverallSafe(violations) ==
    /\ CountWhere(IsCritical, violations) = 0
    /\ CountWhere(IsHigh, violations) = 0
    /\ CountWhere(IsBlocking, violations) = 0

\* moderateText after its first statement: redactionResult is what
\* detectAndRedactContactInfo(text) returned; cfg: the effective
\* configuration; rule, ml: what the rule-based and the ML classifier answer
\* when called
moderateRedacted(redactionResult, cfg, rule, ml) ==
    LET violations ==
            ContactViolations(redactionResult)
            \o RuleLayerViolations(cfg, rule)
            \o MLLayerViolations(cfg, rule, ml)
            \o (IF Caught(cfg, rule, ml) THEN <<ApiErrorViolation>> ELSE <<>>)
    IN [safe |-> OverallSafe(violations),
        violations |-> violations,
        redactionResult |-> redactionResult,
        processedText |-> redactionResult.text,
        confidence |-> MLConfidence(cfg, rule, ml),
        sightengineUsed |->
            \/ RuleCalled(cfg) /\ rule.kind = "ok"
            \/ MLCalled(cfg, rule) /\ ml.kind = "ok"]

moderateText(text, cfg, rule, ml) ==
    moderateRedacted(detectAndRedactContactInfo(text), cfg, rule, ml)

-----------------------------------------------------------------------------
(* Inputs                                                                  *)

\* pieces of message text
Fragments ==
    {<<"c", "a", "l", "l", " ", "m", "e", " ", "a", "t", " ">>,
     <<"5", "5", "5", "-", "1", "2", "3", "-", "4", "5", "6", "7">>,
     <<"b", "o", "b", "@", "m", "a", "i", "l", ".", "c", "o", "m">>,
     <<"@", "u">>,
     <<"1", "2", "3", "4", "5", "6", "7">>,
     <<"t", ".", "m", "e", "/", "x">>,
     <<" ">>,
     <<"1", "2", ":", "3", "0">>,
     <<"h", "i">>}

\* a text is at most MaxParts fragments
MaxParts == 2

RECURSIVE TextsOf(_)
TextsOf(n) ==
    IF n = 0 THEN {<<>>}
    ELSE LET shorter == TextsOf(n - 1) IN
         shorter \cup {t \o f : t \in shorter, f \in Fragments}

Texts == TextsOf(MaxParts)

\* a rule-based response holds at most MaxRuleMatches matches
MaxRuleMatches == 1

RuleMatch(category, intensity, type) ==
    [category |-> category, intensity |-> intensity, type |-> type]

RuleMatchKinds ==
    {RuleMatch("profanity", i, "insult") : i \in {"low", "medium", "high", "extreme"}}
    \cup {RuleMatch("personal", "", "phone_number"), RuleMatch("link", "", "")}
    \cup {RuleMatch(c, "", "") : c \in {"drug", "spam", "violence", "tobacco"}}

RECURSIVE SeqsUpTo(_, _)
SeqsUpTo(S, n) ==
    IF n = 0 THEN {<<>>}
    ELSE LET shorter == SeqsUpTo(S, n - 1) IN
         shorter \cup {Append(q, x) : q \in shorter, x \in S}

RuleOutcomes ==
    {Threw, NotSuccess} \cup {RuleResponse(m) : m \in SeqsUpTo(RuleMatchKinds, MaxRuleMatches)}

MLScores == {10, 70, 85, 95}

MLOutcomes ==
    {Threw, NotSuccess}
    \cup {MLResponse(c) : c \in [{MLKeys[i] : i \in 1..Len(MLKeys)} -> MLScores]}

ModTexts ==
    {<<"h", "i">>,
     <<"c", "a", "l", "l", " ", "m", "e", " ", "a", "t", " ", "5", "5", "5", "-", "1", "2", "3", "-", "4", "5", "6", "7">>,
     <<"b", "o", "b", "@", "m", "a", "i", "l", ".", "c", "o", "m", " ", "@", "u">>}

CallMeText == <<"c", "a", "l", "l", " ", "m", "e", " ", "a", "t", " ", "5", "5", "5", "-", "1", "2", "3", "-", "4", "5", "6", "7">>

ModConfigs ==
    {DEFAULT_SAFETY_CONFIG,
     [DEFAULT_SAFETY_CONFIG EXCEPT !.configured = FALSE],
     [DEFAULT_SAFETY_CONFIG EXCEPT !.rules = FALSE],
     [DEFAULT_SAFETY_CONFIG EXCEPT !.ml = FALSE],
     [DEFAULT_SAFETY_CONFIG EXCEPT !.threshold = 80]}

ModInputs == [text : ModTexts, cfg : ModConfigs]

ModCalls == [rule : RuleOutcomes, ml : MLOutcomes]

-----------------------------------------------------------------------------
(* SpecRedact: the redactor applied to a text, then to its own output      *)

RedactIdle == rText = <<>> /\ rFirst = NoResult /\ rSecond = NoResult
ModerateIdle ==
    mInput = NoResult /\ mRedaction = NoResult /\ mCalls = NoResult /\ mVerdict = NoResult

EngineIdle ==
    /\ db = NoResult /\ room = <<>> /\ frame = NoResult /\ now = 0 /\ budget = NoResult
    /\ moderation = NoResult /\ account = NoResult

InitRedact ==
    /\ rText \in Texts
    /\ rFirst = NoResult
    /\ rSecond = NoResult
    /\ ModerateIdle
    /\ EngineIdle

FirstPass ==
    /\ rFirst = NoResult
    /\ rFirst' = detectAndRedactContactInfo(rText)
    /\ UNCHANGED <<rText, rSecond, moderateVars, engineVars>>

SecondPass ==
    /\ rFirst # NoResult
    /\ rSecond = NoResult
    /\ rSecond' = detectAndRedactContactInfo(rFirst.text)
    /\ UNCHANGED <<rText, rFirst, moderateVars, engineVars>>

NextRedact == FirstPass \/ SecondPass

SpecRedact == InitRedact /\ [][NextRedact]_vars

-----------------------------------------------------------------------------
(* SpecModerate: one call of moderateText                                  *)

InitModerate ==
    /\ mInput \in ModInputs
    /\ mRedaction = NoResult
    /\ mCalls = NoResult
    /\ mVerdict = NoResult
    /\ RedactIdle
    /\ EngineIdle

\* Layer 1
DetectContacts ==
    /\ mRedaction = NoResult
    /\ mRedaction' = detectAndRedactContactInfo(mInput.text)
    /\ UNCHANGED <<redactVars, mInput, mCalls, mVerdict, engineVars>>

\* Layer 2 and the overall decision, for every answer of the classifiers
Classify ==
    /\ mRedaction # NoResult
    /\ mVerdict = NoResult
    /\ \E calls \in ModCalls :
        /\ mCalls' = calls
        /\ mVerdict' = moderateRedacted(mRedaction, mInput.cfg, calls.rule, calls.ml)
    /\ UNCHANGED <<redactVars, mInput, mRedaction, engineVars>>

NextModerate == DetectContacts \/ Classify

SpecModerate == InitModerate /\ [][NextModerate]_vars

-----------------------------------------------------------------------------
(* Properties of moderateText (SpecModerate)                               *)

Returned == mVerdict # NoResult

ViolationsOf(verdict) == {verdict.violations[i] : i \in 1..Len(verdict.violations)}

IsContactDetection(v) == v.category = "contact-detection"
IsApiError(v) == v.type = "moderation_api_error"

\* C1: a Verdict is unsafe exactly when one of its violations has severity
\* High or Critical or has action block
VerdictInvariant ==
    Returned =>
        (mVerdict.safe = FALSE <=>
            \E v \in ViolationsOf(mVerdict) :
                v.severity \in {HIGH, CRITICAL} \/ v.action = "block")

\* an unsafe Verdict none of whose violations blocks: the severity decides
VerdictUnsafeBySeverity ==
    /\ Returned
    /\ ~mVerdict.safe
    /\ \A v \in ViolationsOf(mVerdict) : v.action # "block"

\* C2: the contact-detection violations of a Verdict are the Redactor's
\* spans, one each and in order, all High and block; a text with a span is
\* unsafe; "call me at 555-123-4567" gives [PHONE REDACTED] and one
\* contact_phone violation
ContactSpansBlock ==
    Returned =>
        LET contacts == SelectSeq(mVerdict.violations, IsContactDetection)
            spans == mRedaction.redactions
        IN /\ Len(contacts) = Len(spans)
           /\ \A i \in 1..Len(spans) :
                /\ contacts[i].type = ContactType(spans[i].type)
                /\ contacts[i].severity = HIGH
                /\ contacts[i].action = "block"
           /\ (Len(spans) > 0 => ~mVerdict.safe)
           /\ (mInput.text = CallMeText =>
                /\ IndexOf(mVerdict.processedText, PHONE_REDACTED) # -1
                /\ Len(contacts) = 1
                /\ contacts[1].type = "contact_phone")

\* the Verdict of a text with two spans and no finding of a classifier
TwoSpansBlocked ==
    /\ Returned
    /\ Len(mRedaction.redactions) = 2
    /\ Len(mVerdict.violations) = 2
    /\ ~mVerdict.safe

\* a call of an enabled classifier failed with an error or a timeout
ClassifierFailed ==
    /\ mInput.cfg.enableSightengine /\ mInput.cfg.configured
    /\ \/ mInput.cfg.rules /\ mCalls.rule = Threw
       \/ mInput.cfg.ml /\ mCalls.ml = Threw

\* C3: when classifier calls fail, the Verdict holds every contact-detection
\* violation of the Redactor and exactly one Low moderation_api_error
\* violation with action flag, and is safe when there is nothing else
GracefulDegradation ==
    (Returned /\ ClassifierFailed) =>
        LET contacts == SelectSeq(mVerdict.violations, IsContactDetection)
            advisories == SelectSeq(mVerdict.violations, IsApiError)
        IN /\ Len(contacts) = Len(mRedaction.redactions)
           /\ Len(advisories) = 1
           /\ advisories[1].severity = LOW
           /\ advisories[1].action = "flag"
           /\ (Len(mVerdict.violations) = 1 => mVerdict.safe)

\* the ML call failed after the rule-based call succeeded, on a text with
\* contact information
DegradedWithContacts ==
    /\ Returned
    /\ mCalls.rule.kind = "ok"
    /\ mCalls.ml = Threw
    /\ mInput.cfg = DEFAULT_SAFETY_CONFIG
    /\ mRedaction.hasRedactions
    /\ \E v \in ViolationsOf(mVerdict) : IsApiError(v)

\* C4: when one classifier call fails and the other classifier succeeds,
\* the Verdict holds the violations mapped from the one that succeeded (the
\* ML violations of the scores above the threshold when the rule-based call
\* fails) and the Low advisory
PartialSignal ==
    (/\ Returned
     /\ mInput.cfg.enableSightengine /\ mInput.cfg.configured
     /\ mInput.cfg.rules /\ mInput.cfg.ml) =>
        /\ (mCalls.rule = Threw /\ mCalls.ml.kind = "ok") =>
             /\ \A k \in DOMAIN mCalls.ml.classes :
                  mCalls.ml.classes[k] > mInput.cfg.threshold =>
                      \E v \in ViolationsOf(mVerdict) :
                          v.category = "ml-based" /\ v.type = MLType(k)
             /\ \E v \in ViolationsOf(mVerdict) : IsApiError(v)
        /\ (mCalls.rule.kind = "ok" /\ mCalls.ml = Threw) =>
             /\ ViolationsOf([violations |-> processRuleBasedResponse(mCalls.rule)])
                    \subseteq ViolationsOf(mVerdict)
             /\ \E v \in ViolationsOf(mVerdict) : IsApiError(v)

-----------------------------------------------------------------------------
(* Properties of detectAndRedactContactInfo (SpecRedact)                   *)

\* C5: redacting the output of a redaction finds no span and returns the
\* same text
RedactionIdempotent ==
    rSecond # NoResult =>
        /\ rSecond.text = rFirst.text
        /\ ~rSecond.hasRedactions

-----------------------------------------------------------------------------
(* ModeratorService: the store and the steps of recordSafetyEvent          *)

Null == "null"

\* a user row as created at registration
NewUser ==
    [status |-> "ACTIVE", suspendedUntil |-> Null, suspensionReason |-> Null,
     warningCount |-> 0, safetyScore |-> 100]

\* the rows of the sender: safety events, user, the pair and its session,
\* the messages of the pair
EmptyStore ==
    [safetyEvent |-> <<>>, user |-> NewUser, session |-> "ACTIVE", message |-> <<>>,
     pair |-> "ACTIVE"]

\* thirtyDaysAgo.setDate(thirtyDaysAgo.getDate() - 30), in minutes
WindowMinutes == 30 * 24 * 60

getHighestSeverity(violations) ==
    IF CountWhere(IsCritical, violations) > 0 THEN "CRITICAL"
    ELSE IF CountWhere(IsHigh, violations) > 0 THEN "HIGH"
    ELSE IF CountWhere(IsMedium, violations) > 0 THEN "MEDIUM"
    ELSE "LOW"

\* prisma.safetyEvent.create
CreateSafetyEvent(d, safetyResult, t) ==
    [d EXCEPT !.safetyEvent =
        Append(@, [id |-> Len(@) + 1,
                   createdAt |-> t,
                   severity |-> getHighestSeverity(safetyResult.violations),
                   requiresHumanReview |-> FALSE])]

RECURSIVE Reverse(_)
Reverse(q) == IF q = <<>> THEN <<>> ELSE Append(Reverse(Tail(q)), Head(q))

\* the window without the event recorded last
getUserRecentViolationsBefore(d, t) ==
    LET InWindow(e) == e.createdAt >= t - WindowMinutes /\ e.id < Len(d.safetyEvent)
    IN Reverse(SelectSeq(d.safetyEvent, InWindow))

\* the events of the user created in the last 30 days, newest first
getUserRecentViolations(d, t) ==
    LET InWindow(e) == e.createdAt >= t - WindowMinutes
    IN Reverse(SelectSeq(d.safetyEvent, InWindow))

IsHighSeverityEvent(event) == event.severity = "HIGH" \/ event.severity = "CRITICAL"

Restriction(minutes, reason) ==
    [type |-> "temporary_restriction", duration |-> minutes, reason |-> reason]

\* the rule of 2 High violations put before the rule of a Critical one
determineSanctionsHighFirst(violations, recentViolations) ==
    IF CountWhere(IsHigh, violations) >= 2
    THEN [apply |-> "sanction", status |-> "suspended", minutes |-> 4 * 60,
          reason |-> "Multiple high-severity violations",
          action |-> Restriction(4 * 60, "Multiple high-severity violations")]
    ELSE IF CountWhere(IsCritical, violations) > 0
    THEN [apply |-> "sanction", status |-> "suspended", minutes |-> 24 * 60,
          reason |-> "Critical safety violation",
          action |-> Restriction(24 * 60, "Critical safety violation detected")]
    ELSE [apply |-> "none"]

\* the rule of the pattern in the window put before the rule of 2 High
\* violations
determineSanctionsPatternFirst(violations, recentViolations) ==
    IF CountWhere(IsCritical, violations) > 0
    THEN [apply |-> "sanction", status |-> "suspended", minutes |-> 24 * 60,
          reason |-> "Critical safety violation",
          action |-> Restriction(24 * 60, "Critical safety violation detected")]
    ELSE IF CountWhere(IsHighSeverityEvent, recentViolations) >= 3
    THEN [apply |-> "sanction", status |-> "suspended", minutes |-> 12 * 60,
          reason |-> "Pattern of repeated violations",
          action |-> Restriction(12 * 60, "Pattern of repeated violations detected")]
    ELSE IF CountWhere(IsHigh, violations) >= 2
    THEN [apply |-> "sanction", status |-> "suspended", minutes |-> 4 * 60,
          reason |-> "Multiple high-severity violations",
          action |-> Restriction(4 * 60, "Multiple high-severity violations")]
    ELSE [apply |-> "none"]

\* what determineSanctions decides: the sanction or warning it applies and
\* the ModerationAction it returns
determineSanctions(violations, recentViolations) ==
    IF CountWhere(IsCritical, violations) > 0
    THEN [apply |-> "sanction", status |-> "suspended", minutes |-> 24 * 60,
          reason |-> "Critical safety violation",
          action |-> Restriction(24 * 60, "Critical safety violation detected")]
    ELSE IF CountWhere(IsHigh, violations) >= 2
    THEN [apply |-> "sanction", status |-> "suspended", minutes |-> 4 * 60,
          reason |-> "Multiple high-severity violations",
          action |-> Restriction(4 * 60, "Multiple high-severity violations")]
    ELSE IF CountWhere(IsHighSeverityEvent, recentViolations) >= 3
    THEN [apply |-> "sanction", status |-> "suspended", minutes |-> 12 * 60,
          reason |-> "Pattern of repeated violations",
          action |-> Restriction(12 * 60, "Pattern of repeated violations detected")]
    ELSE IF CountWhere(IsMedium, violations) > 0 /\ Len(recentViolations) = 0
    THEN [apply |-> "warning",
          action |-> [type |-> "warning", duration |-> Null,
                      reason |-> "First-time policy violation - educational warning issued"]]
    ELSE [apply |-> "none"]

\* a sanction that always writes the terminal status
StatusValueBanned(status) == "BANNED"

\* status.toUpperCase()
StatusValue(status) == IF status = "suspended" THEN "SUSPENDED" ELSE "BANNED"

\* applySanction, first write: prisma.user.update
SanctionUser(d, status, durationMinutes, reason, t) ==
    [d EXCEPT !.user.status = StatusValue(status),
              !.user.suspendedUntil = IF durationMinutes # 0 THEN t + durationMinutes ELSE @,
              !.user.suspensionReason = reason]

\* applySanction, second write: prisma.session.updateMany
EndActiveSessions(d) == [d EXCEPT !.session = "ENDED"]

\* recordWarning
recordWarning(d) == [d EXCEPT !.user.warningCount = @ + 1]

IsMLBased(v) == v.category = "ml-based"

requiresHumanReview(violations, recentViolations) ==
    \/ CountWhere(IsCritical, violations) > 0
    \/ Len(recentViolations) >= 5
    \/ CountWhere(IsMLBased, violations) >= 3

\* prisma.safetyEvent.update: requiresHumanReview: true
MarkForReview(d, id) == [d EXCEPT !.safetyEvent[id].requiresHumanReview = TRUE]

Deduction(v) ==
    CASE v.severity = CRITICAL -> 50
      [] v.severity = HIGH -> 25
      [] v.severity = MEDIUM -> 10
      [] v.severity = LOW -> 5

RECURSIVE scoreDeduction(_)
scoreDeduction(violations) ==
    IF violations = <<>> THEN 0
    ELSE Deduction(Head(violations)) + scoreDeduction(Tail(violations))

\* updateUserSafetyScore, first write: decrement
DecrementScore(d, violations) ==
    [d EXCEPT !.user.safetyScore = @ - scoreDeduction(violations)]

\* updateUserSafetyScore, read and second write
FloorScore(d) == IF d.user.safetyScore < 0 THEN [d EXCEPT !.user.safetyScore = 0] ELSE d

\* recordSafetyEvent run to its end at time t with no other call in between
\* and no store failure
RecordedAlone(d, safetyResult, t) ==
    LET created == CreateSafetyEvent(d, safetyResult, t)
        id == Len(created.safetyEvent)
        recent == getUserRecentViolations(created, t)
        decision == determineSanctions(safetyResult.violations, recent)
        sanctioned ==
            CASE decision.apply = "sanction" ->
                    EndActiveSessions(SanctionUser(created, decision.status,
                                                   decision.minutes, decision.reason, t))
              [] decision.apply = "warning" -> recordWarning(created)
              [] OTHER -> created
        reviewed ==
            IF requiresHumanReview(safetyResult.violations, recent)
            THEN MarkForReview(sanctioned, id) ELSE sanctioned
    IN FloorScore(DecrementScore(reviewed, safetyResult.violations))

-----------------------------------------------------------------------------
(* Spec: the send-message handler and recordSafetyEvent, step by step      *)

\* the handler invocations that can be in flight together
Calls == {"c1", "c2"}

\* messages sent in a behaviour
MaxSends == 2

\* store operations that fail in a behaviour
MaxFailures == 1

\* clock ticks in a behaviour
MaxTicks == 1

\* safety events recorded before the behaviour starts
MaxPrior == 4

TickMinutes == 5 * 60

\* when the prior events were recorded: outside and inside the window
StartAt == WindowMinutes + 2 * 60
RecentAt == StartAt - 60
OldAt == StartAt - WindowMinutes - 60

HiText == <<"h", "i">>
TwoContactsText == <<"b", "o", "b", "@", "m", "a", "i", "l", ".", "c", "o", "m", " ", "@", "u">>

NoMatches == RuleResponse(<<>>)
MLScoresAll(score) == MLResponse([k \in {MLKeys[i] : i \in 1..Len(MLKeys)} |-> score])
MLSelfHarm(score) == MLResponse([MLScoresAll(10).classes EXCEPT !["self-harm"] = score])

\* the messages of the model: the text and what the classifiers answer
MessageInputs ==
    [empty |-> [text |-> <<>>, rule |-> NoMatches, ml |-> MLScoresAll(10)],
     clean |-> [text |-> HiText, rule |-> NoMatches, ml |-> MLScoresAll(10)],
     medium |-> [text |-> HiText,
                 rule |-> RuleResponse(<<RuleMatch("spam", "", "")>>),
                 ml |-> MLScoresAll(10)],
     phone |-> [text |-> CallMeText, rule |-> NoMatches, ml |-> MLScoresAll(10)],
     contacts |-> [text |-> TwoContactsText, rule |-> NoMatches, ml |-> MLScoresAll(10)],
     criticalContacts |->
         [text |-> TwoContactsText, rule |-> NoMatches, ml |-> MLSelfHarm(95)]]

MessageNames == DOMAIN MessageInputs

\* safetyService.moderateText(content) for each message
VerdictFor(m) ==
    moderateText(MessageInputs[m].text, DEFAULT_SAFETY_CONFIG,
                 MessageInputs[m].rule, MessageInputs[m].ml)

VerdictOf ==
    [empty |-> VerdictFor("empty"), clean |-> VerdictFor("clean"), medium |-> VerdictFor("medium"),
     phone |-> VerdictFor("phone"), contacts |-> VerdictFor("contacts"),
     criticalContacts |-> VerdictFor("criticalContacts")]

IdleFrame ==
    [pc |-> "idle", msg |-> Null, origin |-> Null, recentViolations |-> <<>>,
     actions |-> <<>>, eventId |-> 0, emitted |-> {}, result |-> Null]

\* detectAndRedactContactInfo(content) of the handler's fallback
BasicRedactionFor(m) == detectAndRedactContactInfo(MessageInputs[m].text)

BasicRedaction ==
    [empty |-> BasicRedactionFor("empty"), clean |-> BasicRedactionFor("clean"), medium |-> BasicRedactionFor("medium"),
     phone |-> BasicRedactionFor("phone"), contacts |-> BasicRedactionFor("contacts"),
     criticalContacts |-> BasicRedactionFor("criticalContacts")]

RECURSIVE RecordTimes(_, _, _, _)
RecordTimes(d, safetyResult, t, n) ==
    IF n = 0 THEN d
    ELSE RecordTimes(RecordedAlone(d, safetyResult, t), safetyResult, t, n - 1)

\* the store after nOld blocked messages of Verdict safetyResult at OldAt
\* and nRecent at RecentAt
PriorStore(safetyResult, nOld, nRecent) ==
    RecordTimes(RecordTimes(EmptyStore, safetyResult, OldAt, nOld),
                safetyResult, RecentAt, nRecent)

Init ==
    /\ moderation = [verdict |-> VerdictOf, basic |-> BasicRedaction]
    /\ \E nOld \in {0, 1} : \E nRecent \in 0..MaxPrior :
        db = PriorStore(moderation.verdict["phone"], nOld, nRecent)
    /\ room = <<>>
    /\ frame = [c \in Calls |-> IdleFrame]
    /\ now = StartAt
    /\ budget = [sends |-> 0, failures |-> 0, ticks |-> 0, adjustments |-> 0]
    /\ account = [signIn |-> Null, ban |-> "idle"]
    /\ RedactIdle
    /\ ModerateIdle

Verdict(c) == moderation.verdict[frame[c].msg]

\* an invocation can start: no invocation is in this slot, and the slots
\* are taken in order
CanStart(c) ==
    /\ frame[c].pc \in {"idle", "done"}
    /\ budget.sends < MaxSends
    /\ c = "c2" => frame["c1"].pc \notin {"idle", "done"}

\* type === 'text' && content: false for the empty string
IsModerated(m) == MessageInputs[m].text # <<>>

\* socket.on('send-message') with a text message of an active pair; a
\* message that is not moderated goes on to be stored with its content
SendMessage(c, m) ==
    /\ CanStart(c)
    /\ db.pair = "ACTIVE"
    /\ frame' = [frame EXCEPT ![c] =
                    [IdleFrame EXCEPT !.pc = IF IsModerated(m) THEN "moderate" ELSE "store",
                                      !.msg = m, !.origin = "socket"]]
    /\ budget' = [budget EXCEPT !.sends = @ + 1]
    /\ UNCHANGED <<db, room, now, moderation, account, redactVars, moderateVars>>

\* await safetyService.moderateText(content) returned
Moderated(c) ==
    /\ frame[c].pc = "moderate"
    /\ frame' = [frame EXCEPT
            ![c].pc = IF Verdict(c).safe THEN "store" ELSE "create",
            ![c].emitted =
                IF ~Verdict(c).safe THEN @ \cup {"message-blocked"}
                ELSE IF Verdict(c).redactionResult.hasRedactions
                THEN @ \cup {"message-redacted"} ELSE @]
    /\ UNCHANGED <<db, room, now, budget, moderation, account, redactVars, moderateVars>>

\* moderatorService.recordSafetyEvent called by a caller other than the
\* socket handler, with a Verdict the handler does not record itself
RecordSafetyEvent(c, m) ==
    /\ CanStart(c)
    /\ Len(moderation.verdict[m].violations) > 0
    /\ moderation.verdict[m].safe
    /\ frame' = [frame EXCEPT ![c] = [IdleFrame EXCEPT !.pc = "create", !.msg = m,
                                                     !.origin = "direct"]]
    /\ budget' = [budget EXCEPT !.sends = @ + 1]
    /\ UNCHANGED <<db, room, now, moderation, account, redactVars, moderateVars>>

\* prisma.safetyEvent.create
CreateEvent(c) ==
    /\ frame[c].pc = "create"
    /\ db' = CreateSafetyEvent(db, Verdict(c), now)
    /\ frame' = [frame EXCEPT ![c].pc = "recent", ![c].eventId = Len(db'.safetyEvent)]
    /\ UNCHANGED <<room, now, budget, moderation, account, redactVars, moderateVars>>

Escalation ==
    [type |-> "escalate_to_human", duration |-> Null,
     reason |-> "Complex violation pattern requires human review"]

\* the store operation after determineSanctions: the update that marks the
\* event for review, if requiresHumanReview, else the score decrement
AfterSanctions(violations, recentViolations) ==
    IF requiresHumanReview(violations, recentViolations) THEN "mark" ELSE "score"

\* the store operation after getUserRecentViolations
AfterRecent(violations, recentViolations) ==
    LET decision == determineSanctions(violations, recentViolations) IN
    IF decision.apply \in {"sanction", "warning"} THEN "user"
    ELSE AfterSanctions(violations, recentViolations)

\* prisma.safetyEvent.findMany of getUserRecentViolations
ReadRecent(c) ==
    /\ frame[c].pc = "recent"
    /\ LET recent == getUserRecentViolations(db, now) IN
       frame' = [frame EXCEPT ![c].pc = AfterRecent(Verdict(c).violations, recent),
                              ![c].recentViolations = recent]
    /\ UNCHANGED <<db, room, now, budget, moderation, account, redactVars, moderateVars>>

Decision(c) == determineSanctions(Verdict(c).violations, frame[c].recentViolations)

\* prisma.user.update of applySanction or of recordWarning; recordWarning
\* returns to determineSanctions, which returns its action
UpdateUser(c) ==
    /\ frame[c].pc = "user"
    /\ db' = IF Decision(c).apply = "sanction"
             THEN SanctionUser(db, Decision(c).status, Decision(c).minutes,
                               Decision(c).reason, now)
             ELSE recordWarning(db)
    /\ frame' = IF Decision(c).apply = "sanction"
                THEN [frame EXCEPT ![c].pc = "sessions"]
                ELSE [frame EXCEPT
                        ![c].pc = AfterSanctions(Verdict(c).violations,
                                                 frame[c].recentViolations),
                        ![c].actions = Append(@, Decision(c).action)]
    /\ UNCHANGED <<room, now, budget, moderation, account, redactVars, moderateVars>>

\* prisma.session.updateMany of applySanction; determineSanctions returns
\* its action
EndSessions(c) ==
    /\ frame[c].pc = "sessions"
    /\ db' = EndActiveSessions(db)
    /\ frame' = [frame EXCEPT
            ![c].pc = AfterSanctions(Verdict(c).violations, frame[c].recentViolations),
            ![c].actions = Append(@, Decision(c).action)]
    /\ UNCHANGED <<room, now, budget, moderation, account, redactVars, moderateVars>>

\* prisma.safetyEvent.update after requiresHumanReview
Mark(c) ==
    /\ frame[c].pc = "mark"
    /\ db' = MarkForReview(db, frame[c].eventId)
    /\ frame' = [frame EXCEPT
            ![c].pc = "score",
            ![c].actions = Append(@, Escalation)]
    /\ UNCHANGED <<room, now, budget, moderation, account, redactVars, moderateVars>>

\* prisma.user.update of updateUserSafetyScore: decrement
DeductScore(c) ==
    /\ frame[c].pc = "score"
    /\ db' = DecrementScore(db, Verdict(c).violations)
    /\ frame' = [frame EXCEPT ![c].pc = "floor"]
    /\ UNCHANGED <<room, now, budget, moderation, account, redactVars, moderateVars>>

\* the end of updateUserSafetyScore and of recordSafetyEvent; the handler
\* notifies the sender of the actions and returns without delivering
FloorAndReturn(c) ==
    /\ frame[c].pc = "floor"
    /\ db' = FloorScore(db)
    /\ frame' = [frame EXCEPT
            ![c].pc = "done",
            ![c].result = IF frame[c].origin = "socket" THEN "blocked" ELSE "returned",
            ![c].emitted = IF frame[c].origin = "socket" /\ Len(frame[c].actions) > 0
                           THEN @ \cup {"moderation-action"} ELSE @]
    /\ UNCHANGED <<room, now, budget, moderation, account, redactVars, moderateVars>>

\* the positions inside recordSafetyEvent: the next store operation
RecordSteps == {"create", "recent", "user", "sessions", "mark", "score", "floor"}

\* the next store operation of recordSafetyEvent throws: recordSafetyEvent
\* throws 'Failed to process safety event'; the handler catches it, falls
\* back to detectAndRedactContactInfo and goes on to deliver
StoreFails(c) ==
    /\ frame[c].pc \in RecordSteps
    /\ budget.failures < MaxFailures
    /\ frame' = [frame EXCEPT
            ![c].pc = IF frame[c].origin = "socket" THEN "store" ELSE "done",
            ![c].result = IF frame[c].origin = "socket" THEN "fallback" ELSE "threw"]
    /\ budget' = [budget EXCEPT !.failures = @ + 1]
    /\ UNCHANGED <<db, room, now, moderation, account, redactVars, moderateVars>>

\* processedContent when the message is created
ProcessedContent(f) ==
    IF ~IsModerated(f.msg) THEN MessageInputs[f.msg].text
    ELSE IF f.result = "fallback" THEN moderation.basic[f.msg].text
    ELSE moderation.verdict[f.msg].processedText

\* prisma.message.create, then io.to(pair room).emit('new-message')
Deliver(c) ==
    /\ frame[c].pc = "store"
    /\ db' = [db EXCEPT !.message =
                Append(@, [msg |-> frame[c].msg, body |-> ProcessedContent(frame[c])])]
    /\ room' = Append(room, ProcessedContent(frame[c]))
    /\ frame' = [frame EXCEPT ![c].pc = "done", ![c].result = "delivered"]
    /\ UNCHANGED <<now, budget, moderation, account, redactVars, moderateVars>>

\* prisma.message.create throws: the outer catch emits 'error'
DeliverFails(c) ==
    /\ frame[c].pc = "store"
    /\ budget.failures < MaxFailures
    /\ frame' = [frame EXCEPT ![c].pc = "done", ![c].result = "error",
                              ![c].emitted = @ \cup {"error"}]
    /\ budget' = [budget EXCEPT !.failures = @ + 1]
    /\ UNCHANGED <<db, room, now, moderation, account, redactVars, moderateVars>>

Quiescent == \A c \in Calls : frame[c].pc \in {"idle", "done"}

\* time passes between invocations, in units of TickMinutes
Tick ==
    /\ Quiescent
    /\ budget.ticks < MaxTicks
    /\ now' = now + TickMinutes
    /\ budget' = [budget EXCEPT !.ticks = @ + 1]
    /\ UNCHANGED <<db, room, frame, moderation, account, redactVars, moderateVars>>

Next ==
    \/ \E c \in Calls :
        \/ \E m \in MessageNames : SendMessage(c, m)
        \/ \E m \in MessageNames : RecordSafetyEvent(c, m)
        \/ Moderated(c)
        \/ CreateEvent(c)
        \/ ReadRecent(c)
        \/ UpdateUser(c)
        \/ EndSessions(c)
        \/ Mark(c)
        \/ DeductScore(c)
        \/ FloorAndReturn(c)
        \/ StoreFails(c)
        \/ Deliver(c)
        \/ DeliverFails(c)
    \/ Tick

Spec == Init /\ [][Next]_vars

-----------------------------------------------------------------------------
(* SpecAccount: one handler invocation at a time, the moderator's actions  *)
(* of AdminService and the credentials sign-in                             *)

\* score adjustments a moderator applies in a behaviour
MaxAdjustments == 1

\* action.scoreAdjustment of a score_adjustment action
ScoreAdjustments == {-30, 30}

\* AdminService.applyBan, first write: prisma.user.update
BanUserRow(d, reason) ==
    [d EXCEPT !.user.status = "BANNED", !.user.suspensionReason = reason]

\* AdminService.applyBan, second writes: the active sessions and pairs
CloseSessionsAndPairs(d) ==
    [d EXCEPT !.session = "ENDED",
              !.pair = IF @ = "ACTIVE" THEN "CLOSED" ELSE @]

\* AdminService.adjustSafetyScore
adjustSafetyScore(d, adjustment) ==
    [d EXCEPT !.user.safetyScore = Max({0, Min({100, @ + adjustment})})]

\* authorize of the credentials provider, with the user's email and password
authorize(d) == IF d.user.status # "ACTIVE" THEN "rejected" ELSE "accepted"

\* applyModerationAction with permanent_ban: the user update
BanUser ==
    /\ account.ban = "idle"
    /\ db' = BanUserRow(db, "Banned by moderator")
    /\ account' = [account EXCEPT !.ban = "close"]
    /\ UNCHANGED <<room, frame, now, budget, moderation, redactVars, moderateVars>>

\* applyModerationAction with permanent_ban: sessions and pairs
ClosePairs ==
    /\ account.ban = "close"
    /\ db' = CloseSessionsAndPairs(db)
    /\ account' = [account EXCEPT !.ban = "done"]
    /\ UNCHANGED <<room, frame, now, budget, moderation, redactVars, moderateVars>>

\* applyModerationAction with score_adjustment
AdjustScore(adjustment) ==
    /\ budget.adjustments < MaxAdjustments
    /\ db' = adjustSafetyScore(db, adjustment)
    /\ budget' = [budget EXCEPT !.adjustments = @ + 1]
    /\ UNCHANGED <<room, frame, now, moderation, account, redactVars, moderateVars>>

\* the user signs in with valid credentials
SignIn ==
    /\ account' = [account EXCEPT !.signIn = authorize(db)]
    /\ UNCHANGED <<db, room, frame, now, budget, moderation, redactVars, moderateVars>>

\* socket.on('send-message') when the pair is not active: 'Unauthorized
\* access to pair'
Unauthorized(c) ==
    /\ CanStart(c)
    /\ db.pair # "ACTIVE"
    /\ frame' = [frame EXCEPT ![c] = [IdleFrame EXCEPT !.pc = "done",
                                                     !.origin = "socket",
                                                     !.result = "unauthorized",
                                                     !.emitted = {"error"}]]
    /\ budget' = [budget EXCEPT !.sends = @ + 1]
    /\ UNCHANGED <<db, room, now, moderation, account, redactVars, moderateVars>>

\* the invocation slot of SpecAccount
TheCall == "c1"

NextAccount ==
    \/ \E m \in MessageNames : SendMessage(TheCall, m)
    \/ Unauthorized(TheCall)
    \/ Moderated(TheCall)
    \/ CreateEvent(TheCall)
    \/ ReadRecent(TheCall)
    \/ UpdateUser(TheCall)
    \/ EndSessions(TheCall)
    \/ Mark(TheCall)
    \/ DeductScore(TheCall)
    \/ FloorAndReturn(TheCall)
    \/ StoreFails(TheCall)
    \/ Deliver(TheCall)
    \/ DeliverFails(TheCall)
    \/ BanUser
    \/ ClosePairs
    \/ \E adjustment \in ScoreAdjustments : AdjustScore(adjustment)
    \/ SignIn
    \/ Tick

SpecAccount == Init /\ [][NextAccount]_vars

-----------------------------------------------------------------------------
(* SpecMatch: the match requests of MatchingAlgorithm, the rematch         *)
(* invitations of EngagementService, two calls at a time; db holds the     *)
(* matchRequest and pair rows, frame the calls in flight                   *)

\* config.app.maxOpenRequests
maxOpenRequests == 3

\* config.app.requestExpiryHours, in minutes
RequestExpiryMinutes == 72 * 60

\* the user who sends requests, and the users the requests go to
Requester == "u1"
Targets == {"u2", "u3", "u4", "u5"}

\* the target the requester was paired with before, with one session
FormerPartner == "u5"

\* calls of the matching functions in a behaviour
MaxMatchCalls == 3

\* pending requests of the requester when the behaviour starts
MaxInitialRequests == 2

\* the identifiers requests can have, and the users who respond to them
RequestIds == 1..(MaxInitialRequests + MaxMatchCalls)
MatchUsers == {Requester} \cup Targets

\* the request exists, and the user who responds is the user it is
\* addressed to or the requester
IsResponder(requestId, userId) ==
    /\ requestId \in DOMAIN db.matchRequest
    /\ userId \in {db.matchRequest[requestId].requestedId, Requester}

IdleMatchFrame ==
    [pc |-> "idle", op |-> Null, requestedId |-> Null, requestId |-> 0,
     userId |-> Null, expired |-> {}, result |-> Null]

\* the default of the status column of a match request: the value the
\* queries of MatchingAlgorithm look for
DefaultRequestStatus == "pending"

\* the row prisma.matchRequest.create of createMatchRequest stores
MatchRequestRow(id, requestedId, t) ==
    [id |-> id, requesterId |-> Requester, requestedId |-> requestedId,
     status |-> DefaultRequestStatus, expiresAt |-> t + RequestExpiryMinutes, isRematch |-> FALSE]

\* the requests the requester sent to the first n targets, at time 0
InitialRequests(n) ==
    [i \in 1..n |-> MatchRequestRow(i, IF i = 1 THEN "u2" ELSE "u3", 0)]

InitMatch ==
    /\ \E n \in 0..MaxInitialRequests :
        db = [matchRequest |-> InitialRequests(n),
              pairs |-> <<[userAId |-> Requester, userBId |-> FormerPartner,
                           status |-> "ACTIVE", sessions |-> 1]>>]
    /\ frame = [c \in Calls |-> IdleMatchFrame]
    /\ now = 0
    /\ budget = [calls |-> 0, ticks |-> 0]
    /\ room = <<>>
    /\ moderation = NoResult
    /\ account = NoResult
    /\ RedactIdle
    /\ ModerateIdle

CanStartMatch(c) ==
    /\ frame[c].pc \in {"idle", "done"}
    /\ budget.calls < MaxMatchCalls
    /\ c = "c2" => frame["c1"].pc \notin {"idle", "done"}

\* prisma.matchRequest.count({ requesterId, status: 'pending' })
OpenRequests(d, requesterId) ==
    Cardinality({i \in DOMAIN d.matchRequest :
                    /\ d.matchRequest[i].requesterId = requesterId
                    /\ d.matchRequest[i].status = "pending"})

\* an update of the status of the rows with the identifiers ids
SetStatus(d, ids, status) ==
    [d EXCEPT !.matchRequest =
        [i \in DOMAIN @ |-> IF i \in ids THEN [@[i] EXCEPT !.status = status] ELSE @[i]]]

\* createMatchRequest: called, and the check for an existing request
CreateMatchRequest(c, requestedId) ==
    /\ CanStartMatch(c)
    /\ LET existingRequest ==
            \E i \in DOMAIN db.matchRequest :
                /\ db.matchRequest[i].status = "pending"
                /\ \/ /\ db.matchRequest[i].requesterId = Requester
                      /\ db.matchRequest[i].requestedId = requestedId
                   \/ /\ db.matchRequest[i].requesterId = requestedId
                      /\ db.matchRequest[i].requestedId = Requester
       IN frame' = [frame EXCEPT ![c] =
            IF existingRequest
            THEN [IdleMatchFrame EXCEPT !.pc = "done", !.op = "create",
                                        !.requestedId = requestedId, !.result = "exists"]
            ELSE [IdleMatchFrame EXCEPT !.pc = "count", !.op = "create",
                                        !.requestedId = requestedId]]
    /\ budget' = [budget EXCEPT !.calls = @ + 1]
    /\ UNCHANGED <<db, room, now, moderation, account, redactVars, moderateVars>>

\* createMatchRequest: the check of the open request limit
CountOpenRequests(c) ==
    /\ frame[c].pc = "count"
    /\ frame' = [frame EXCEPT ![c] =
            IF OpenRequests(db, Requester) >= maxOpenRequests
            THEN [@ EXCEPT !.pc = "done", !.result = "limit"]
            ELSE [@ EXCEPT !.pc = "insert"]]
    /\ UNCHANGED <<db, room, now, budget, moderation, account, redactVars, moderateVars>>

\* createMatchRequest: prisma.matchRequest.create
InsertRequest(c) ==
    /\ frame[c].pc = "insert"
    /\ db' = [db EXCEPT !.matchRequest =
                Append(@, MatchRequestRow(Len(@) + 1, frame[c].requestedId, now))]
    /\ frame' = [frame EXCEPT ![c].pc = "done", ![c].result = "created",
                              ![c].requestId = Len(db.matchRequest) + 1]
    /\ UNCHANGED <<room, now, budget, moderation, account, redactVars, moderateVars>>

\* sendRematchInvitation: the lookup of a previous pair with sessions and
\* the creation of the request, which no other call of the model affects
SendRematchInvitation(c, toUserId) ==
    /\ CanStartMatch(c)
    /\ LET previous == \E i \in DOMAIN db.pairs :
                /\ {db.pairs[i].userAId, db.pairs[i].userBId} = {Requester, toUserId}
                /\ db.pairs[i].sessions > 0
       IN /\ db' = IF previous
                   THEN [db EXCEPT !.matchRequest =
                            Append(@, [id |-> Len(@) + 1, requesterId |-> Requester,
                                       requestedId |-> toUserId, status |-> "PENDING",
                                       expiresAt |-> Null, isRematch |-> TRUE])]
                   ELSE db
          /\ frame' = [frame EXCEPT ![c] =
                [IdleMatchFrame EXCEPT !.pc = "done", !.op = "rematch",
                                       !.requestedId = toUserId,
                                       !.result = IF previous THEN "created" ELSE "threw"]]
    /\ budget' = [budget EXCEPT !.calls = @ + 1]
    /\ UNCHANGED <<room, now, moderation, account, redactVars, moderateVars>>

\* acceptMatchRequest: called, and prisma.matchRequest.findFirst
AcceptMatchRequest(c, requestId, userId) ==
    /\ CanStartMatch(c)
    /\ IsResponder(requestId, userId)
    /\ LET found == /\ db.matchRequest[requestId].requestedId = userId
                    /\ db.matchRequest[requestId].status = "pending"
       IN frame' = [frame EXCEPT ![c] =
            [IdleMatchFrame EXCEPT !.pc = IF found THEN "transaction" ELSE "done",
                                   !.op = "accept", !.requestId = requestId,
                                   !.userId = userId,
                                   !.result = IF found THEN Null ELSE "not-found"]]
    /\ budget' = [budget EXCEPT !.calls = @ + 1]
    /\ UNCHANGED <<db, room, now, moderation, account, redactVars, moderateVars>>

\* acceptMatchRequest: prisma.$transaction
AcceptTransaction(c) ==
    /\ frame[c].pc = "transaction"
    /\ LET id == frame[c].requestId
           request == db.matchRequest[id]
           users == {request.requesterId, request.requestedId}
           others == {i \in DOMAIN db.matchRequest :
                        /\ i # id
                        /\ db.matchRequest[i].status = "pending"
                        /\ \/ db.matchRequest[i].requesterId \in users
                           \/ db.matchRequest[i].requestedId \in users}
           accepted == SetStatus(db, {id}, "accepted")
           paired == [accepted EXCEPT !.pairs =
                        Append(@, [userAId |-> request.requesterId,
                                   userBId |-> request.requestedId,
                                   status |-> "ACTIVE", sessions |-> 0])]
       IN db' = SetStatus(paired, others, "expired")
    /\ frame' = [frame EXCEPT ![c].pc = "done", ![c].result = "accepted"]
    /\ UNCHANGED <<room, now, budget, moderation, account, redactVars, moderateVars>>

\* rejectMatchRequest: prisma.matchRequest.update, which throws when no row
\* has the id and the requestedId
RejectMatchRequest(c, requestId, userId) ==
    /\ CanStartMatch(c)
    /\ IsResponder(requestId, userId)
    /\ LET found == db.matchRequest[requestId].requestedId = userId IN
       /\ db' = IF found THEN SetStatus(db, {requestId}, "rejected") ELSE db
       /\ frame' = [frame EXCEPT ![c] =
                [IdleMatchFrame EXCEPT !.pc = "done", !.op = "reject",
                                       !.requestId = requestId, !.userId = userId,
                                       !.result = IF found THEN "rejected" ELSE "threw"]]
    /\ budget' = [budget EXCEPT !.calls = @ + 1]
    /\ UNCHANGED <<room, now, moderation, account, redactVars, moderateVars>>

\* getExpiredRequests: called, and prisma.matchRequest.findMany
GetExpiredRequests(c) ==
    /\ CanStartMatch(c)
    /\ LET expired == {i \in DOMAIN db.matchRequest :
                        /\ db.matchRequest[i].status = "pending"
                        /\ db.matchRequest[i].expiresAt < now}
       IN frame' = [frame EXCEPT ![c] =
            [IdleMatchFrame EXCEPT !.pc = IF expired = {} THEN "done" ELSE "expire",
                                   !.op = "sweep", !.expired = expired,
                                   !.result = IF expired = {} THEN "none" ELSE Null]]
    /\ budget' = [budget EXCEPT !.calls = @ + 1]
    /\ UNCHANGED <<db, room, now, moderation, account, redactVars, moderateVars>>

\* getExpiredRequests: prisma.matchRequest.updateMany({ id: { in: ... } })
ExpireFound(c) ==
    /\ frame[c].pc = "expire"
    /\ db' = SetStatus(db, frame[c].expired, "expired")
    /\ frame' = [frame EXCEPT ![c].pc = "done", ![c].result = "expired"]
    /\ UNCHANGED <<room, now, budget, moderation, account, redactVars, moderateVars>>

\* time passes between calls, to after the expiry of the requests sent
MatchTick ==
    /\ Quiescent
    /\ budget.ticks < MaxTicks
    /\ now' = now + RequestExpiryMinutes + 60
    /\ budget' = [budget EXCEPT !.ticks = @ + 1]
    /\ UNCHANGED <<db, room, frame, moderation, account, redactVars, moderateVars>>

NextMatch ==
    \/ \E c \in Calls :
        \/ \E requestedId \in Targets : CreateMatchRequest(c, requestedId)
        \/ CountOpenRequests(c)
        \/ InsertRequest(c)
        \/ \E toUserId \in Targets : SendRematchInvitation(c, toUserId)
        \/ \E requestId \in RequestIds : \E userId \in MatchUsers :
                AcceptMatchRequest(c, requestId, userId)
        \/ \E requestId \in RequestIds : \E userId \in MatchUsers :
                RejectMatchRequest(c, requestId, userId)
        \/ AcceptTransaction(c)
        \/ GetExpiredRequests(c)
        \/ ExpireFound(c)
    \/ MatchTick

SpecMatch == InitMatch /\ [][NextMatch]_vars

-----------------------------------------------------------------------------
(* Properties of recordSafetyEvent (Spec)                                  *)

\* the violations of the message of call c
Violations(c) == IF frame[c].msg = Null THEN <<>> ELSE Verdict(c).violations

HasCritical(c) == CountWhere(IsCritical, Violations(c)) > 0
HighCount(c) == CountWhere(IsHigh, Violations(c))

\* call c is inside recordSafetyEvent or has returned from it
Recording(c) == frame[c].pc \in RecordSteps

\* the step of call c is a store operation that succeeds: c moves on from
\* position pc and recordSafetyEvent does not throw
Succeeds(c, pc) ==
    /\ frame[c].pc = pc
    /\ frame'[c].pc # pc
    /\ frame'[c].result \notin {"fallback", "threw"}

\* the user is suspended by this step until minutes from now
SuspendedFor(minutes) ==
    /\ db'.user.status = "SUSPENDED"
    /\ db'.user.suspendedUntil = now + minutes
    /\ db'.user.suspensionReason # Null

\* the ModerationActions of call c that restrict the user
Restrictions(c) ==
    SelectSeq(frame[c].actions, LAMBDA a : a.type = "temporary_restriction")

\* recordSafetyEvent of call c has returned to its caller
RecordReturned(c) == frame[c].pc = "done" /\ frame[c].result \in {"blocked", "returned"}

WindowHighEvents(d, t) ==
    {i \in DOMAIN d.safetyEvent :
        /\ d.safetyEvent[i].createdAt >= t - WindowMinutes
        /\ d.safetyEvent[i].severity \in {"HIGH", "CRITICAL"}}

PriorEvents(c) ==
    {i \in DOMAIN db.safetyEvent :
        /\ i < frame[c].eventId
        /\ db.safetyEvent[i].createdAt >=
                db.safetyEvent[frame[c].eventId].createdAt - WindowMinutes}

\* the message of call c was the first of the behaviour, its only violations
\* are Medium ones, and the handler or recordSafetyEvent has finished with
\* it without a store failure
MediumHandled(c) ==
    /\ frame[c].pc = "done"
    /\ frame[c].result \in {"returned", "delivered"}
    /\ budget.sends = 1
    /\ budget.failures = 0
    /\ Violations(c) # <<>>
    /\ getHighestSeverity(Violations(c)) = "MEDIUM"

\* C9: after a message whose only violation is Medium, of a user with no
\* event in the window before it, has been moderated and recorded, the
\* user's warningCount is 1, the status is Active and no suspension is set
FirstMediumWarned ==
    \A c \in Calls :
        (/\ MediumHandled(c)
         /\ \A i \in DOMAIN db.safetyEvent :
                db.safetyEvent[i].createdAt >= now - WindowMinutes => i = frame[c].eventId)
        => /\ db.user.warningCount = 1
           /\ db.user.status = "ACTIVE"
           /\ db.user.suspendedUntil = Null

\* C10: the event recorded for a High message of a user with 2 High events
\* in the 30 days before it has requiresHumanReview = true
ThirdHighReviewed ==
    \A c \in Calls :
        (/\ RecordReturned(c)
         /\ getHighestSeverity(Violations(c)) = "HIGH"
         /\ Cardinality(PriorEvents(c)) = 2
         /\ \A i \in PriorEvents(c) : db.safetyEvent[i].severity = "HIGH")
        => db.safetyEvent[frame[c].eventId].requiresHumanReview

\* C11: the event recorded for a Verdict, by the only call of the behaviour,
\* has requiresHumanReview = true exactly when the Verdict has a Critical
\* violation, or the window held at least 5 events before this event was
\* added, or the Verdict has at least 3 ml-based violations
ReviewExactlyWhen ==
    \A c \in Calls :
        (RecordReturned(c) /\ budget.sends = 1) =>
            (db.safetyEvent[frame[c].eventId].requiresHumanReview
                <=> \/ HasCritical(c)
                    \/ Cardinality(PriorEvents(c)) >= 5
                    \/ CountWhere(IsMLBased, Violations(c)) >= 3)

\* C12: the persisted safetyScore of the user is never below 0
ScoreNeverNegative == db.user.safetyScore >= 0

\* C17: after recordSafetyEvent of a call has thrown, no SafetyEvent of that
\* call is persisted
RecordingAtomic ==
    \A c \in Calls :
        frame[c].result \in {"fallback", "threw"} =>
            frame[c].eventId \notin DOMAIN db.safetyEvent

\* the actions recordSafetyEvent returns when it runs at time t with no
\* other call in between and no store failure
ActionsAlone(d, safetyResult, t) ==
    LET created == CreateSafetyEvent(d, safetyResult, t)
        recent == getUserRecentViolations(created, t)
        decision == determineSanctions(safetyResult.violations, recent)
    IN (IF decision.apply = "none" THEN <<>> ELSE <<decision.action>>)
       \o (IF requiresHumanReview(safetyResult.violations, recent)
           THEN <<Escalation>> ELSE <<>>)

Reasons(actions) == [i \in DOMAIN actions |-> actions[i].reason]

\* the store and the returned actions are those of call a recorded alone on
\* store d, then call b recorded alone
SerialOrder(d, a, b) ==
    LET afterA == RecordedAlone(d, Verdict(a), now)
        afterB == RecordedAlone(afterA, Verdict(b), now)
    IN /\ db.user.warningCount = afterB.user.warningCount
       /\ db.user.status = afterB.user.status
       /\ Reasons(frame[a].actions) = Reasons(ActionsAlone(d, Verdict(a), now))
       /\ Reasons(frame[b].actions) = Reasons(ActionsAlone(afterA, Verdict(b), now))

\* C18: when two calls of recordSafetyEvent for the user have overlapped and
\* both have returned, the user's warningCount and status and the actions
\* returned to each call are those of the two calls run one after the other,
\* in one of the two orders, on the store the behaviour started with
SerializedPerUser ==
    (/\ RecordReturned("c1") /\ RecordReturned("c2")
     /\ budget.sends = 2 /\ budget.failures = 0 /\ budget.ticks = 0)
    => \E nOld \in {0, 1} : \E nRecent \in 0..MaxPrior :
        LET d == PriorStore(moderation.verdict["phone"], nOld, nRecent) IN
        /\ d.safetyEvent = SubSeq(db.safetyEvent, 1, Len(db.safetyEvent) - 2)
        /\ SerialOrder(d, "c1", "c2") \/ SerialOrder(d, "c2", "c1")

\* C19: no message is stored or broadcast by a call that is still waiting
\* for its Verdict, and every message stored and broadcast to the pair room
\* has a safe Verdict
DeliveredOnlySafe ==
    /\ \A c \in Calls : frame[c].pc = "moderate" => frame[c].result # "delivered"
    /\ Len(room) = Len(db.message)
    /\ \A i \in DOMAIN db.message : moderation.verdict[db.message[i].msg].safe

\* C20: once recordSafetyEvent has thrown for a message whose Verdict is
\* unsafe, the next step of the handler stores and broadcasts nothing and
\* ends the call with an error
FailClosed ==
    [][\A c \in Calls :
        (/\ frame[c].result = "fallback"
         /\ ~Verdict(c).safe
         /\ frame'[c] # frame[c])
        => /\ frame'[c].result = "error"
           /\ db'.message = db.message
           /\ room' = room]_vars

-----------------------------------------------------------------------------
(* Properties of the user's account (SpecAccount)                          *)

\* the step is a score_adjustment of a moderator
AdjustsScore == budget'.adjustments = budget.adjustments + 1

\* C13: the persisted safetyScore of the user increases only in a step that
\* is a moderator's score_adjustment
ScoreNeverRestored ==
    [][db'.user.safetyScore > db.user.safetyScore => AdjustsScore]_vars

BannedIsTerminal ==
    [][db.user.status = "BANNED" => db'.user.status = "BANNED"]_vars

\* the suspension of the user has expired (applySanction sets suspendedUntil
\* whenever it sets the status)
SuspensionExpired ==
    /\ db.user.status = "SUSPENDED"
    /\ db.user.suspendedUntil < now

\* C16: a sign-in of a suspended user whose suspendedUntil has passed is
\* accepted, and the user is Active after it
ExpiredSuspensionReverts ==
    [][(SignIn /\ SuspensionExpired)
            => (account'.signIn = "accepted" /\ db'.user.status = "ACTIVE")]_vars

-----------------------------------------------------------------------------
(* Further properties of the handler and of recordSafetyEvent (Spec)       *)

\* C21: no message with an empty text is stored or broadcast to the pair
\* room
EmptyTextRejected ==
    /\ \A i \in DOMAIN db.message : MessageInputs[db.message[i].msg].text # <<>>
    /\ \A i \in DOMAIN room : room[i] # <<>>

\* C23: when the handler has finished with a message without a store
\* failure, a SafetyEvent of that call is in the store exactly when the
\* Verdict of the message has at least one violation
OneEventPerViolation ==
    \A c \in Calls :
        (/\ frame[c].origin = "socket"
         /\ frame[c].pc = "done"
         /\ frame[c].result \in {"delivered", "blocked"}
         /\ budget.failures = 0)
        => (Violations(c) # <<>> <=> frame[c].eventId \in DOMAIN db.safetyEvent)

\* C29: while the user is Suspended with suspendedUntil in the future, a
\* step that leaves the user Suspended does not set suspendedUntil to an
\* earlier time
SuspensionNeverShortened ==
    [][(/\ db.user.status = "SUSPENDED"
        /\ db.user.suspendedUntil > now
        /\ db'.user.status = "SUSPENDED")
       => db'.user.suspendedUntil >= db.user.suspendedUntil]_vars

-----------------------------------------------------------------------------
(* Further properties of moderateText (SpecModerate)                       *)

\* the action the severity of a violation calls for
ActionFor(severity) ==
    CASE severity \in {CRITICAL, HIGH} -> "block"
      [] severity = MEDIUM -> "moderate"
      [] severity = LOW -> "flag"

\* C24: every violation of a Verdict has the action of its severity: block
\* for Critical and High, moderate for Medium, flag for Low
ActionBySeverity ==
    Returned => \A v \in ViolationsOf(mVerdict) : v.action = ActionFor(v.severity)

SeverityRank(severity) ==
    CASE severity = LOW -> 1
      [] severity = MEDIUM -> 2
      [] severity = HIGH -> 3
      [] severity = CRITICAL -> 4

IntensityRank(intensity) ==
    CASE intensity = "low" -> 1
      [] intensity = "medium" -> 2
      [] intensity = "high" -> 3

\* ML scores around every band limit, in hundredths
ScoreGrid == {0, 10, 50, 69, 70, 71, 79, 80, 81, 89, 90, 91, 99, 100}

\* C25: a higher ML score or a higher rule-based intensity never maps to a
\* lower severity; ML scores map by the bands >= 0.9 Critical, >= 0.8 High,
\* >= 0.7 Medium, else Low; and in a Verdict, every ml-based violation has
\* the severity of the band of its score, so that of two ml-based
\* violations the one with the higher score is at least as severe
SeverityMonotonic ==
    /\ \A a \in ScoreGrid : \A b \in ScoreGrid :
            a > b => SeverityRank(scoresToSeverity(a)) >= SeverityRank(scoresToSeverity(b))
    /\ \A a \in ScoreGrid :
            /\ scoresToSeverity(a) = CRITICAL <=> a >= 90
            /\ scoresToSeverity(a) = HIGH <=> (a >= 80 /\ a < 90)
            /\ scoresToSeverity(a) = MEDIUM <=> (a >= 70 /\ a < 80)
            /\ scoresToSeverity(a) = LOW <=> a < 70
    /\ \A i \in {"low", "medium", "high"} : \A j \in {"low", "medium", "high"} :
            IntensityRank(i) > IntensityRank(j) =>
                SeverityRank(mapIntensityToSeverity(i))
                    >= SeverityRank(mapIntensityToSeverity(j))
    /\ Returned =>
        \A v \in ViolationsOf(mVerdict) : \A w \in ViolationsOf(mVerdict) :
            (IsMLBased(v) /\ IsMLBased(w) /\ v.confidence > w.confidence) =>
                SeverityRank(v.severity) >= SeverityRank(w.severity)

\* a Verdict with an ml-based violation of score 0.95, Critical, and one of
\* score 0.85, High
TwoBandsInVerdict ==
    /\ Returned
    /\ \E v \in ViolationsOf(mVerdict) : \E w \in ViolationsOf(mVerdict) :
        /\ IsMLBased(v) /\ v.confidence = 95 /\ v.severity = CRITICAL
        /\ IsMLBased(w) /\ w.confidence = 85 /\ w.severity = HIGH

\* the ML classifier was called and answered
MLAnswered == MLCalled(mInput.cfg, mCalls.rule) /\ mCalls.ml.kind = "ok"

\* C26: a category score of the ML classifier yields an ml-based violation
\* exactly when it is greater than or equal to the threshold, and a score
\* equal to 0.7 yields a Medium one
ThresholdInclusive ==
    (Returned /\ MLAnswered) =>
        \A k \in DOMAIN mCalls.ml.classes :
            /\ mCalls.ml.classes[k] >= EffectiveThreshold(mInput.cfg)
                <=> \E v \in ViolationsOf(mVerdict) : IsMLBased(v) /\ v.type = MLType(k)
            /\ (mCalls.ml.classes[k] = 70 /\ EffectiveThreshold(mInput.cfg) = 70)
                => \E v \in ViolationsOf(mVerdict) :
                        IsMLBased(v) /\ v.type = MLType(k) /\ v.severity = MEDIUM

\* the violations of a Verdict mapped from matches of the rule-based
\* classifier
RuleViolations == IF Caught(mInput.cfg, mCalls.rule, mCalls.ml)
                  THEN SelectSeq(mVerdict.violations,
                                 LAMBDA v : v.category = "rule-based" /\ ~IsApiError(v))
                  ELSE SelectSeq(mVerdict.violations, LAMBDA v : v.category = "rule-based")

\* C27: every match the rule-based classifier returns produces a violation,
\* and a match of a category outside the mapping table produces one with
\* severity Low and action flag
UnmappedNotDropped ==
    (Returned /\ RuleCalled(mInput.cfg) /\ mCalls.rule.kind = "ok") =>
        /\ Len(RuleViolations) = Len(mCalls.rule.matches)
        /\ \A i \in DOMAIN mCalls.rule.matches :
            mCalls.rule.matches[i].category = "tobacco" =>
                \E v \in ViolationsOf(mVerdict) :
                    v.type = "tobacco" /\ v.severity = LOW /\ v.action = "flag"

-----------------------------------------------------------------------------
(* Further properties of detectAndRedactContactInfo (SpecRedact)           *)

RECURSIVE SocialMatches(_, _)
SocialMatches(text, p) ==
    IF p > Len(SOCIAL_PATTERNS) THEN <<>>
    ELSE GlobalMatch(SOCIAL_PATTERNS[p], text) \o SocialMatches(text, p + 1)

\* the contact strings of a type that the patterns match in a text
ContactStrings(text, type) ==
    LET found == CASE type = "email" -> GlobalMatch(EMAIL_PATTERN, text)
                   [] type = "phone" -> SelectSeq(GlobalMatch(PHONE_PATTERN, text),
                                                  IsPhoneNumber)
                   [] type = "social" -> SocialMatches(text, 1)
    IN {found[i] : i \in 1..Len(found)}

\* C28: every span of a redaction lies in the input text, the input text
\* between its start and end is a contact string of the span's type, and no
\* two spans cover the same position
SpansInOriginal ==
    rFirst # NoResult =>
        LET spans == rFirst.redactions IN
        /\ \A i \in DOMAIN spans :
            /\ spans[i].start >= 0
            /\ spans[i].end <= Len(rText)
            /\ SubSeq(rText, spans[i].start + 1, spans[i].end)
                    \in ContactStrings(rText, spans[i].type)
        /\ \A i \in DOMAIN spans : \A j \in DOMAIN spans :
            i < j => (spans[i].end <= spans[j].start \/ spans[j].end <= spans[i].start)

-----------------------------------------------------------------------------
(* Properties of the match requests (SpecMatch)                            *)

\* C22: the requester never has more than maxOpenRequests pending requests
OpenRequestLimit == OpenRequests(db, Requester) <= maxOpenRequests

\* C30: a request that has been accepted stays accepted: no step changes
\* its status to rejected or expired
AcceptedStaysAccepted ==
    [][\A i \in DOMAIN db.matchRequest :
        db.matchRequest[i].status = "accepted" =>
            db'.matchRequest[i].status = "accepted"]_vars

====
